---- MODULE Spec2Model ----
(***************************************************************************)
(* A model of the binary-search crate (src/src/lib.rs): the overflow-safe  *)
(* midpoint `Betweenable::between` over a fixed-width integer type X and   *)
(* the recursive driver `binary_search`. An invocation of the driver is two *)
(* steps, the evaluation of X::between and the match on its result; the    *)
(* recursive call is a tail call on the replaced arguments.                *)
(***************************************************************************)
EXTENDS Integers, Sequences, FiniteSets, TLC

\* ------------------------------------------------------------------ bounds

\* Width in bits of the integer types X the generic runs are enumerated over.
W == 3

\* Width in bits of the unsigned type the crate's three tests are run at
\* (the smallest that holds the doc example's bound 100).
TestBits == 7

\* Recursion depth allowed past the type's width before the model stops
\* following a run that never returns.
Slack == 0

\* --------------------------------------------------------- the value type X

Pow2(n) == 2 ^ n

\* X is [bits, signed]: an unsigned type holds 0 .. 2^bits - 1, a signed one
\* -2^(bits-1) .. 2^(bits-1) - 1 in two's complement.
MinVal(X) == IF X.signed THEN -Pow2(X.bits - 1) ELSE 0

MaxVal(X) == IF X.signed THEN Pow2(X.bits - 1) - 1 ELSE Pow2(X.bits) - 1

Values(X) == MinVal(X) .. MaxVal(X)

\* The value of type X congruent to v modulo 2^bits (what a wrapping
\* operation leaves).
Wrap(X, v) ==
    IF X.signed
    THEN ((v + Pow2(X.bits - 1)) % Pow2(X.bits)) - Pow2(X.bits - 1)
    ELSE v % Pow2(X.bits)

\* X::from(1u8) (lib.rs:20).
one == 1

\* `a + b` of type X (std::ops::Add): the wrapped sum, and whether the true
\* sum left the type's range (a panic under overflow checks).
add(X, a, b) ==
    [val |-> Wrap(X, a + b), ovf |-> (a + b) \notin Values(X)]

\* Bit i (from 0) of a's two's-complement representation in X.
Bit(X, a, i) == ((a % Pow2(X.bits)) \div Pow2(i)) % 2

\* `a & b` of type X (std::ops::BitAnd), bit by bit.
RECURSIVE AndBits(_, _, _, _)
AndBits(X, a, b, i) ==
    IF i = X.bits THEN 0
    ELSE Bit(X, a, i) * Bit(X, b, i) * Pow2(i) + AndBits(X, a, b, i + 1)

bitand(X, a, b) == Wrap(X, AndBits(X, a, b, 0))

\* `a >> 1` of type X (std::ops::Shr<i8>): every bit moves one place down;
\* the top bit is filled with 0 for an unsigned type (logical shift) and
\* with the sign bit for a signed one (arithmetic shift).
RECURSIVE ShrBits(_, _, _)
ShrBits(X, a, i) ==
    IF i = X.bits - 1
    THEN (IF X.signed THEN Bit(X, a, X.bits - 1) ELSE 0) * Pow2(i)
    ELSE Bit(X, a, i + 1) * Pow2(i) + ShrBits(X, a, i + 1)

shr1(X, a) == Wrap(X, ShrBits(X, a, 0))

\* -------------------------------------------------------------- between

None == [tag |-> "None", val |-> 0, ovf |-> FALSE]

Some(v, o) == [tag |-> "Some", val |-> v, ovf |-> o]

Panic == [tag |-> "Panic", val |-> 0, ovf |-> TRUE]

\* The classic midpoint (low + high) >> 1, whose sum overflows near MAX.
between_naive(X, checks, low, high) ==
    LET s == add(X, low, one)
    IN IF s.ovf /\ checks THEN Panic
       ELSE IF high <= s.val THEN None
       ELSE LET t == add(X, low, high)
            IN IF t.ovf /\ checks THEN Panic
               ELSE Some(shr1(X, t.val), s.ovf \/ t.ovf)

\* A guard that is off by one: adjacent bounds are bisected again.
between_guard(X, checks, low, high) ==
    LET s == add(X, low, one)
    IN IF s.ovf /\ checks THEN Panic
       ELSE IF high <= low THEN None
       ELSE LET t == add(X, shr1(X, low), shr1(X, high))
                c == bitand(X, bitand(X, low, high), one)
                m == add(X, t.val, c)
            IN IF (t.ovf \/ m.ovf) /\ checks THEN Panic
               ELSE Some(m.val, s.ovf \/ t.ovf \/ m.ovf)

\* A midpoint that only steps off the low bound: a linear search.
between_linear(X, checks, low, high) ==
    LET s == add(X, low, one)
    IN IF s.ovf /\ checks THEN Panic
       ELSE IF high <= s.val THEN None
       ELSE Some(s.val, s.ovf)

\* Betweenable::between(low, high) (lib.rs:19-27) at type X. `checks` is
\* the build's overflow-checks setting: an addition that overflows panics
\* when it is on and wraps when it is off. The result is the Option
\* returned (or the panic); `ovf` records whether an addition that was
\* executed overflowed.
between(X, checks, low, high) ==
    LET s == add(X, low, one)
    IN IF s.ovf /\ checks THEN Panic
       ELSE IF high <= s.val THEN None
       ELSE LET t == add(X, shr1(X, low), shr1(X, high))
                c == bitand(X, bitand(X, low, high), one)
                m == add(X, t.val, c)
            IN IF (t.ovf \/ m.ovf) /\ checks THEN Panic
               ELSE Some(m.val, s.ovf \/ t.ovf \/ m.ovf)

\* ------------------------------------------------------------ the state

VARIABLES
    X,       \* the type parameter X of binary_search: [bits, signed]
    checks,  \* the build: TRUE when integer overflow panics, FALSE when it wraps
    f,       \* the closure passed as `f`
    low,     \* the argument `low` of the current invocation: <<value, witness>>
    high,    \* the argument `high` of the current invocation: <<value, witness>>
    pc,      \* where the current invocation is: "between" (about to evaluate
             \* X::between), "match" (matching on its result), "returned",
             \* "panicked"
    m,       \* what X::between(low.0, high.0) gave the current invocation
    calls,   \* the invocations of f so far, in order: [x, d]
    low0,    \* the argument `low` of the outermost invocation
    high0    \* the argument `high` of the outermost invocation

vars == <<X, checks, f, low, high, pc, m, calls, low0, high0>>

\* Direction<A, B> (lib.rs:33-36).
Low(w) == [tag |-> "Low", w |-> w]

High(w) == [tag |-> "High", w |-> w]

\* The scrutinee of an invocation that has not evaluated X::between yet.
Unevaluated == [tag |-> "Unevaluated", val |-> 0, ovf |-> FALSE]

\* ------------------------------------------------------------ the closures

\* |x| if x < T { Low(a) } else { High(b) } for witnesses a in A, b in B
\* (lib.rs:139-145 with T = 23 and unit witnesses).
Threshold(T, A, B) ==
    [kind |-> "threshold", T |-> T, A |-> A, B |-> B, values |-> <<>>]

\* A closure that may answer either way on each call (FnMut: it may be
\* stateful), with any witness of A or B.
AnyF(A, B) ==
    [kind |-> "any", T |-> 0, A |-> A, B |-> B, values |-> <<>>]

\* A closure that answers by indexing an array with its argument
\* (lib.rs:153-159 and lib.rs:170-175); values[i] is the Direction returned
\* for index i - 1.
Table(values) ==
    [kind |-> "table", T |-> 0, A |-> {}, B |-> {}, values |-> values]

\* values[i] panics when i is out of bounds.
FPanics(g, x) ==
    g.kind = "table" /\ x \notin 0 .. (Len(g.values) - 1)

\* The Directions f may return when called with x.
FAnswers(g, x) ==
    CASE g.kind = "threshold" ->
            IF x < g.T THEN {Low(a) : a \in g.A} ELSE {High(b) : b \in g.B}
      [] g.kind = "any" ->
            {Low(a) : a \in g.A} \cup {High(b) : b \in g.B}
      [] g.kind = "table" ->
            IF FPanics(g, x) THEN {} ELSE {g.values[x + 1]}

\* -------------------------------------------------------------- Init

\* let values = [0, 4, 5, 6, 7, 9, 456] with |i| values[i] < 6 (lib.rs:151-159).
SimpleValues ==
    <<Low("unit"), Low("unit"), Low("unit"), High("unit"),
      High("unit"), High("unit"), High("unit")>>

\* let values = [Ok("foo"), Ok("bar"), Ok("baz"), Err(false), Err(true)]
\* with Ok(x) => Low(x), Err(x) => High(x) (lib.rs:167-175).
WitnessValues ==
    <<Low("foo"), Low("bar"), Low("baz"), High(FALSE), High(TRUE)>>

Start(t, c, g, l, h) ==
    /\ X = t
    /\ checks = c
    /\ f = g
    /\ low = l
    /\ high = h
    /\ pc = "between"
    /\ m = Unevaluated
    /\ calls = <<>>
    /\ low0 = l
    /\ high0 = h

\* Every pair of bounds of a W-bit type, in either order, with a threshold
\* closure over unit witnesses.
InitThreshold ==
    \E s \in BOOLEAN, c \in BOOLEAN :
        LET t == [bits |-> W, signed |-> s]
        IN \E l \in Values(t), h \in Values(t), T \in Values(t) :
              Start(t, c, Threshold(T, {"unit"}, {"unit"}),
                    <<l, "unit">>, <<h, "unit">>)

\* Every pair of bounds of a W-bit type, in either order, with a closure
\* that answers freely, over two witnesses a side.
InitAny ==
    \E s \in BOOLEAN, c \in BOOLEAN :
        LET t == [bits |-> W, signed |-> s]
        IN \E l \in Values(t), h \in Values(t) :
              Start(t, c, AnyF({"a1", "a2"}, {"b1", "b2"}),
                    <<l, "a1">>, <<h, "b1">>)

\* The crate's tests (lib.rs:138-179), at an unsigned TestBits-bit type, and
\* the first test's bracket again with a closure that answers freely.
InitTests ==
    \E c \in BOOLEAN :
        LET t == [bits |-> TestBits, signed |-> FALSE]
        IN \/ Start(t, c, Threshold(23, {"unit"}, {"unit"}),
                    <<1, "unit">>, <<100, "unit">>)
           \/ Start(t, c, AnyF({"a1", "a2"}, {"b1", "b2"}),
                    <<1, "a1">>, <<100, "b1">>)
           \/ Start(t, c, Table(SimpleValues),
                    <<0, "unit">>, <<Len(SimpleValues), "unit">>)
           \/ Start(t, c, Table(WitnessValues),
                    <<0, "bar">>, <<Len(WitnessValues) - 1, TRUE>>)

Init == InitThreshold \/ InitAny \/ InitTests

\* ----------------------------------------------------------- binary_search

\* The model follows at most this many calls of f in one run.
MaxCalls == X.bits + Slack

\* Low(w) replaces the high side: the arms of the match swapped.
Recurse_swapped(x, d) ==
    /\ low' = IF d.tag = "High" THEN <<x, d.w>> ELSE low
    /\ high' = IF d.tag = "Low" THEN <<x, d.w>> ELSE high

\* The new bound keeps the old witness.
Recurse_stale(x, d) ==
    /\ low' = IF d.tag = "Low" THEN <<x, low[2]>> ELSE low
    /\ high' = IF d.tag = "High" THEN <<x, high[2]>> ELSE high

\* lib.rs:111-112: the arguments of the recursive call.
\*   Direction::Low(low)   => binary_search((x, low), high, f)
\*   Direction::High(high) => binary_search(low, (x, high), f)
Recurse(x, d) ==
    /\ low' = IF d.tag = "Low" THEN <<x, d.w>> ELSE low
    /\ high' = IF d.tag = "High" THEN <<x, d.w>> ELSE high

\* lib.rs:108: match X::between(low.0, high.0).
Between ==
    /\ pc = "between"
    /\ m' = between(X, checks, low[1], high[1])
    /\ pc' = "match"
    /\ UNCHANGED <<X, checks, f, low, high, calls, low0, high0>>

\* lib.rs:109: None => (low, high).
Return ==
    /\ pc = "match"
    /\ m.tag = "None"
    /\ pc' = "returned"
    /\ UNCHANGED <<X, checks, f, low, high, m, calls, low0, high0>>

\* lib.rs:110-113: Some(x) => match (f)(x) { ... }: f is called with x and
\* the driver calls itself with the arguments Recurse gives.
Bisect ==
    /\ pc = "match"
    /\ m.tag = "Some"
    /\ Len(calls) < MaxCalls
    /\ \E d \in FAnswers(f, m.val) :
          /\ calls' = Append(calls, [x |-> m.val, d |-> d])
          /\ Recurse(m.val, d)
    /\ m' = Unevaluated
    /\ pc' = "between"
    /\ UNCHANGED <<X, checks, f, low0, high0>>

\* An addition of between overflowed under overflow checks (lib.rs:21, 24),
\* or f indexes its array out of bounds: the thread panics.
Panicked ==
    /\ pc = "match"
    /\ \/ m.tag = "Panic"
       \/ m.tag = "Some" /\ FPanics(f, m.val)
    /\ pc' = "panicked"
    /\ UNCHANGED <<X, checks, f, low, high, m, calls, low0, high0>>

Next == Between \/ Return \/ Bisect \/ Panicked

Spec == Init /\ [][Next]_vars

\* The runs whose closure is monotone: the threshold closures and the
\* tests' closures over their arrays.
InitMonotone ==
    \/ InitThreshold
    \/ InitTests /\ f.kind # "any"

\* The driver is sequential: an invocation that can run does run.
FairSpec == InitMonotone /\ [][Next]_vars /\ WF_vars(Next)

\* ------------------------------------------------------ stating the claims

\* The outermost call satisfies the documented precondition.
Valid0 == low0[1] < high0[1]

\* high.value - low.value of the current arguments, as an integer.
Gap == high[1] - low[1]

\* The least k with 2^k >= g, i.e. ceil(log2(g)) for g >= 1.
RECURSIVE CeilLog2From(_, _)
CeilLog2From(g, k) == IF Pow2(k) >= g THEN k ELSE CeilLog2From(g, k + 1)

CeilLog2(g) == CeilLog2From(g, 0)

\* floor(g / 2) and ceil(g / 2) of an integer g of either sign.
FloorHalf(g) == IF g >= 0 THEN g \div 2 ELSE -((1 - g) \div 2)

CeilHalf(g) == IF g >= 0 THEN (g + 1) \div 2 ELSE -((-g) \div 2)

\* A table closure is monotone when no Low follows a High.
Monotone(g) ==
    \/ g.kind = "threshold"
    \/ /\ g.kind = "table"
       /\ \A i, j \in 1 .. Len(g.values) :
             (i < j /\ g.values[i].tag = "High") => g.values[j].tag = "High"

\* The calls of f that answered with the given tag.
CallsTagged(tag) == {i \in 1 .. Len(calls) : calls[i].d.tag = tag}

\* The current invocation has evaluated X::between(low.0, high.0).
HasEvaluated == m.tag # "Unevaluated"

\* The step is an invocation that called f and recursed.
CalledF == calls' # calls

\* C1: with the predicate x < T, low.value < T <= high.value, the search
\* returns the values (T - 1, T); the doc example (1, 100, x < 23) returns
\* ((22, ()), (23, ())).
C1_ThresholdFound ==
    /\ (pc = "returned" /\ f.kind = "threshold"
            /\ low0[1] < f.T /\ f.T <= high0[1])
          => (low[1] = f.T - 1 /\ high[1] = f.T)
    /\ (pc = "returned" /\ f.kind = "threshold" /\ f.T = 23
            /\ X.bits = TestBits /\ low0[1] = 1 /\ high0[1] = 100)
          => (low = <<22, "unit">> /\ high = <<23, "unit">>)

C1_Witness ==
    /\ pc = "returned" /\ f.kind = "threshold" /\ f.T = 23
    /\ X.bits = TestBits /\ low0[1] = 1 /\ high0[1] = 100
    /\ Len(calls) >= 6
    /\ low[1] = 22 /\ high[1] = 23

\* C2: with a monotone predicate and low.value < high.value the search
\* terminates, and what it returns has no midpoint: between(low, high) is
\* None and high.value is low.value + 1.
C2_MonotoneTerminates ==
    /\ (Monotone(f) /\ Valid0) => <>(pc = "returned")
    /\ []((Monotone(f) /\ Valid0 /\ pc = "returned")
            => (/\ between(X, checks, low[1], high[1]).tag = "None"
                /\ high[1] = low[1] + 1))

C2_Witness ==
    /\ Monotone(f) /\ Valid0 /\ pc = "returned"
    /\ Len(calls) >= 3
    /\ high[1] = low[1] + 1

\* C3: with any predicate and low.value < high.value, the returned low side
\* is the largest candidate classified Low with the witness of that call
\* (the original low side when none was), and the returned high side the
\* smallest candidate classified High with the witness of that call (the
\* original high side when none was); the witness test ends with "baz" and
\* false.
C3_WitnessPropagation ==
    /\ (pc = "returned" /\ Valid0) =>
          /\ IF CallsTagged("Low") = {} THEN low = low0
             ELSE \E i \in CallsTagged("Low") :
                     /\ \A j \in CallsTagged("Low") : calls[j].x <= calls[i].x
                     /\ low = <<calls[i].x, calls[i].d.w>>
          /\ IF CallsTagged("High") = {} THEN high = high0
             ELSE \E i \in CallsTagged("High") :
                     /\ \A j \in CallsTagged("High") : calls[i].x <= calls[j].x
                     /\ high = <<calls[i].x, calls[i].d.w>>
    /\ (pc = "returned" /\ f.kind = "table" /\ f.values = WitnessValues)
          => (low = <<2, "baz">> /\ high = <<3, FALSE>>)

C3_Witness ==
    /\ pc = "returned" /\ Valid0 /\ f.kind = "any"
    /\ Len(calls) >= 3
    /\ calls[Len(calls)].d.tag = "High"
    /\ low[2] = "a2" /\ low[1] # low0[1]
    /\ high[2] = "b2"

\* C4: for high > low + 1, up to high = MAX, between returns Some(mid) with
\* mid the floor of the true mean, low < mid < high, and no addition
\* overflows; between(1, 3) = Some(2), between(MAX - 3, MAX - 1) =
\* Some(MAX - 2), between(MAX - 2, MAX) = Some(MAX - 1).
C4_MidpointExact ==
    (HasEvaluated /\ high[1] > low[1] + 1) =>
        /\ m.tag = "Some"
        /\ ~m.ovf
        /\ 2 * m.val <= low[1] + high[1]
        /\ low[1] + high[1] <= 2 * m.val + 1
        /\ low[1] < m.val /\ m.val < high[1]
        /\ (low[1] = 1 /\ high[1] = 3) => m = Some(2, FALSE)
        /\ (low[1] = MaxVal(X) - 3 /\ high[1] = MaxVal(X) - 1)
              => m = Some(MaxVal(X) - 2, FALSE)
        /\ (low[1] = MaxVal(X) - 2 /\ high[1] = MaxVal(X))
              => m = Some(MaxVal(X) - 1, FALSE)

C4_Witness ==
    /\ HasEvaluated
    /\ low[1] = MaxVal(X) - 2 /\ high[1] = MaxVal(X)
    /\ m = Some(MaxVal(X) - 1, FALSE)

\* C5: for all low and high of the type with high <= low + 1 (adjacent,
\* equal or inverted), between(low, high) returns None.
C5_AbsentWhenNotApart ==
    (HasEvaluated /\ high[1] <= low[1] + 1) => m.tag = "None"

\* C6: binary_search is total: for any bounds, in any order and up to MAX,
\* and any predicate it does not fail, and what it returns has no midpoint.
C6_Total ==
    /\ pc # "panicked"
    /\ pc = "returned" => between(X, checks, low[1], high[1]).tag = "None"

\* C7: started with low.value < high.value, f is called at most
\* ceil(log2(high.value - low.value)) times.
C7_LogarithmicCalls ==
    Valid0 => Len(calls) <= CeilLog2(high0[1] - low0[1])

C7_Witness ==
    /\ Valid0 /\ pc = "returned"
    /\ Len(calls) >= 3
    /\ Len(calls) = CeilLog2(high0[1] - low0[1])
    /\ Pow2(Len(calls)) > high0[1] - low0[1]

\* C8 as stated: in every iteration that calls f the new gap is at most
\* floor(old gap / 2), and the search stops exactly when the gap reaches
\* 1 or 0.
C8_HalvesRoundingDown ==
    [][Valid0 =>
          /\ CalledF => (high'[1] - low'[1]) <= FloorHalf(Gap)
          /\ (pc = "match" /\ pc' = "returned") => Gap \in {0, 1}
          /\ (pc = "match" /\ Gap \in {0, 1}) => pc' = "returned"]_vars

\* C8 as amended: in every iteration that calls f the new gap is at most
\* ceil(old gap / 2): it is floor(old gap / 2) when f answers High and
\* ceil(old gap / 2) when f answers Low; started with low.value <
\* high.value, the search stops exactly when the gap reaches 1.
C8_HalvesRoundingUp ==
    [][/\ CalledF =>
             /\ (high'[1] - low'[1]) <= CeilHalf(Gap)
             /\ (high'[1] - low'[1]) =
                   IF calls'[Len(calls')].d.tag = "Low"
                   THEN CeilHalf(Gap) ELSE FloorHalf(Gap)
       /\ Valid0 =>
             /\ (pc = "match" /\ pc' = "returned") => Gap = 1
             /\ (pc = "match" /\ Gap = 1) => pc' = "returned"
             /\ Gap >= 1]_vars

C8_Witness ==
    /\ Valid0 /\ pc = "between"
    /\ Len(calls) = 1
    /\ calls[1].d.tag = "Low"
    /\ Gap = CeilHalf(high0[1] - low0[1])
    /\ Gap > FloorHalf(high0[1] - low0[1])

\* C9: started with low.value < high.value, f is called at most once per
\* value and only with values strictly between the two initial bounds; with
\* the bracket (0, len) over an array it is never called with index len.
C9_CandidatesFreshAndInside ==
    Valid0 =>
        /\ \A i \in 1 .. Len(calls) :
              low0[1] < calls[i].x /\ calls[i].x < high0[1]
        /\ \A i, j \in 1 .. Len(calls) :
              i # j => calls[i].x # calls[j].x
        /\ f.kind = "table" =>
              /\ \A i \in 1 .. Len(calls) : calls[i].x # Len(f.values)
              /\ pc # "panicked"

C9_Witness ==
    /\ Valid0 /\ pc = "returned"
    /\ f.kind = "table" /\ f.values = SimpleValues
    /\ Len(calls) = 3
    /\ calls[1].x = 3 /\ calls[2].x = 1 /\ calls[3].x = 2

\* C10: started with low.value < high.value, an iteration that calls f
\* changes exactly one side: on Low(w) low becomes (midpoint, w) with a
\* larger value and high is unchanged; on High(w) high becomes
\* (midpoint, w) with a smaller value and low is unchanged; low.value <
\* high.value holds before and after every iteration.
C10_OneSideChanges ==
    [][Valid0 =>
          /\ low[1] < high[1] /\ low'[1] < high'[1]
          /\ CalledF =>
                LET c == calls'[Len(calls')]
                IN /\ calls' = Append(calls, c)
                   /\ c.x = m.val /\ m = between(X, checks, low[1], high[1])
                   /\ c.d.tag = "Low" =>
                         /\ low' = <<c.x, c.d.w>>
                         /\ low'[1] > low[1]
                         /\ high' = high
                   /\ c.d.tag = "High" =>
                         /\ high' = <<c.x, c.d.w>>
                         /\ high'[1] < high[1]
                         /\ low' = low]_vars

C10_Witness ==
    /\ Valid0 /\ pc = "between" /\ f.kind = "any"
    /\ Len(calls) = 2
    /\ calls[1].d = Low("a2") /\ calls[2].d = High("b2")
    /\ low = <<calls[1].x, "a2">>
    /\ high = <<calls[2].x, "b2">>

====
